---- MODULE Spec2Model ----
(***************************************************************************)
(* Model of etc/models.py: the Site, Telescope and Instrument models of    *)
(* the exposure time calculator and the composition operators they define. *)
(*                                                                         *)
(* Throughput samples are exact rationals.  A sample is a sign and the     *)
(* exponents of the primes 2, 3, 5, 11 and 397 (0.99 = 3^2*11 / 2^2*5^2,     *)
(* 0.9925 = 397 / 2^4*5^2), so    *)
(* that products, quotients and powers are exact and never overflow.       *)
(***************************************************************************)
EXTENDS Integers, Sequences, FiniteSets, TLC

VARIABLES site, site0, skw, tel, tel0, mirror, inst, ikw, conf, log, calls, res, nops

vars == <<site, site0, skw, tel, tel0, mirror, inst, ikw, conf, log, calls, res, nops>>

(* ------------------------------ bounds --------------------------------- *)
\* wavelength samples kept of the 300..1500 nm characterisation grid
NumSamples == 2
\* largest num_mirrors a Telescope is constructed with
MaxMirrors == 3
\* number of composition expressions evaluated after construction
MaxOps == 2
\* longest configured filter-name list
MaxFilters == 3

(* ------------------------------ samples -------------------------------- *)
Primes == <<2, 3, 5, 11, 397>>
NP == Len(Primes)
ZeroE == [i \in 1..NP |-> 0]

\* the rational 2^a * 3^b * 5^c * 11^d
Q(a, b, c, d) == [sgn |-> 1, e |-> <<a, b, c, d, 0>>]
Neg(v) == [sgn |-> 0 - v.sgn, e |-> v.e]
Zero == [sgn |-> 0, e |-> ZeroE]
One == Q(0, 0, 0, 0)
Half == Q(-1, 0, 0, 0)
NineTenths == Q(-1, 2, -1, 0)
Hundred == Q(2, 0, 2, 0)

VMul(a, b) ==
    IF a.sgn = 0 \/ b.sgn = 0 THEN Zero
    ELSE [sgn |-> a.sgn * b.sgn, e |-> [i \in 1..NP |-> a.e[i] + b.e[i]]]

\* b is never zero in this model: every divisor is drawn from positive samples
VDiv(a, b) ==
    IF a.sgn = 0 THEN Zero
    ELSE [sgn |-> a.sgn * b.sgn, e |-> [i \in 1..NP |-> a.e[i] - b.e[i]]]

\* Python's a ** n for an integer n >= 0
VPow(a, n) ==
    IF n = 0 THEN One
    ELSE IF a.sgn = 0 THEN Zero
    ELSE [sgn |-> IF n % 2 = 0 THEN 1 ELSE a.sgn,
          e |-> [i \in 1..NP |-> n * a.e[i]]]

RECURSIVE IPow(_, _)
IPow(p, k) == IF k <= 0 THEN 1 ELSE p * IPow(p, k - 1)

Max2(a, b) == IF a >= b THEN a ELSE b

RECURSIVE NumFrom(_, _)
NumFrom(e, i) ==
    IF i > NP THEN 1 ELSE IPow(Primes[i], Max2(e[i], 0)) * NumFrom(e, i + 1)

RECURSIVE DenFrom(_, _)
DenFrom(e, i) ==
    IF i > NP THEN 1 ELSE IPow(Primes[i], Max2(0 - e[i], 0)) * DenFrom(e, i + 1)

\* signed numerator and positive denominator of a sample
Num(v) == v.sgn * NumFrom(v.e, 1)
Den(v) == DenFrom(v.e, 1)

\* a <= b, decided on the quotient so that common factors cancel
VLeq(a, b) ==
    IF a.sgn # b.sgn THEN a.sgn < b.sgn
    ELSE IF a.sgn = 0 THEN TRUE
    ELSE LET r == VDiv(a, b)
         IN  IF a.sgn = 1 THEN NumFrom(r.e, 1) <= DenFrom(r.e, 1)
             ELSE NumFrom(r.e, 1) >= DenFrom(r.e, 1)

(* ------------------------------ curves --------------------------------- *)
\* np.arange(300, 1501, 1) * u.nm, sampled at NumSamples evenly spaced points
WaveLo == 300
WaveHi == 1500
Grid == [i \in 1..NumSamples |->
            WaveLo + ((i - 1) * (WaveHi - WaveLo)) \div (NumSamples - 1)]

NoHeader == {}

\* keep_neg=False: negative samples are set to zero
ClampNeg(tbl) == [i \in DOMAIN tbl |-> IF tbl[i].sgn < 0 THEN Zero ELSE tbl[i]]

\* BaseUnitlessSpectrum(Empirical1D, points=, lookup_table=, keep_neg=, meta=)
Curve(points, tbl, keep_neg, header, expr) ==
    [points |-> points,
     table |-> IF keep_neg THEN tbl ELSE ClampNeg(tbl),
     header |-> header,
     expr |-> expr]

\* len(wavelengths) * [value,]
Uniform(v) == [i \in 1..NumSamples |-> v]

IsCurve(x) == x.kind = "Curve"
IsScalar(x) == x.kind = "Scalar"

\* first sample a, last sample b, every sample between them mid
Tab(a, mid, b) ==
    [i \in 1..NumSamples |->
        IF i = 1 THEN a ELSE IF i = NumSamples THEN b ELSE mid]

NoCurve == Curve(<<>>, <<>>, TRUE, NoHeader, <<>>)

\* product curves carry no header and no expr of their operands
RawCurve(tbl) == Curve(Grid, tbl, TRUE, NoHeader, <<>>)

(* --------------------------- curve algebra ----------------------------- *)
\* an operand of * or /: a number, a curve, or one of the three components
Scalar(v) == [kind |-> "Scalar", v |-> v, c |-> NoCurve]
CurveObj(c) == [kind |-> "Curve", v |-> One, c |-> c]
SiteObj == [kind |-> "Site", v |-> One, c |-> NoCurve]
TelescopeObj == [kind |-> "Telescope", v |-> One, c |-> NoCurve]
InstrumentObj == [kind |-> "Instrument", v |-> One, c |-> NoCurve]

Ok(c) == [raised |-> FALSE, error |-> "", value |-> c]
Raise(err) == [raised |-> TRUE, error |-> err, value |-> NoCurve]

\* curve.__mul__(other): a real scalar scales every sample, a curve multiplies
\* pointwise on the shared grid, anything else is refused
CurveMul(c, other) ==
    IF IsScalar(other)
      THEN Ok(RawCurve([i \in DOMAIN c.table |-> VMul(c.table[i], other.v)]))
    ELSE IF IsCurve(other)
      THEN Ok(RawCurve([i \in DOMAIN c.table |->
                           VMul(c.table[i], other.c.table[i])]))
    ELSE Raise("IncompatibleSources")

\* curve.__truediv__(other)
CurveDiv(c, other) ==
    IF IsScalar(other)
      THEN Ok(RawCurve([i \in DOMAIN c.table |-> VDiv(c.table[i], other.v)]))
    ELSE IF IsCurve(other)
      THEN Ok(RawCurve([i \in DOMAIN c.table |->
                           VDiv(c.table[i], other.c.table[i])]))
    ELSE Raise("IncompatibleSources")

(* ------------------------------- files --------------------------------- *)
\* A table file: whether it can be read, its column names, the unit its
\* wavelength column is written in, and its flux column.  Wavelengths are
\* the characterisation grid written in that unit, as pairs <<num, den>>.
LamIn(unit) ==
    [i \in 1..NumSamples |->
        IF unit = "micron" THEN <<Grid[i], 1000>>
        ELSE IF unit = "AA" THEN <<Grid[i] * 10, 1>>
        ELSE <<Grid[i], 1>>]

File(readable, cols, unit, flux) ==
    [readable |-> readable, cols |-> cols, lam |-> LamIn(unit), flux |-> flux]

\* a wavelength read as `unit`, in nanometres
ToNm(raw, unit) ==
    IF unit = "micron" THEN (raw[1] * 1000) \div raw[2]
    ELSE IF unit = "AA" THEN raw[1] \div (raw[2] * 10)
    ELSE raw[1] \div raw[2]

SkyTable == Tab(NineTenths, Half, Neg(Half))

SkyFiles == {"sky_lco.fits", "sky_eso.fits", "sky_other.fits", "sky_missing.fits"}

SkyFile(path) ==
    CASE path = "sky_lco.fits" -> File(TRUE, {"lam", "trans"}, "nm", SkyTable)
      [] path = "sky_eso.fits" -> File(TRUE, {"lam", "flux"}, "micron", SkyTable)
      [] path = "sky_other.fits" -> File(TRUE, {"lam", "counts"}, "nm", SkyTable)
      [] OTHER -> File(FALSE, {}, "nm", <<>>)

ReadOk(header, points, tbl) ==
    [raised |-> FALSE, error |-> "", header |-> header, points |-> points,
     table |-> tbl]
ReadFail(err) ==
    [raised |-> TRUE, error |-> err, header |-> NoHeader, points |-> <<>>,
     table |-> <<>>]

\* specio.read_spec(file, wave_col='lam', flux_col=, wave_unit=)
read_spec(f, flux_col, wave_unit) ==
    IF ~f.readable THEN ReadFail("OSError")
    ELSE IF flux_col \notin f.cols THEN ReadFail("KeyError")
    ELSE ReadOk(NoHeader,
                [i \in DOMAIN f.lam |-> ToNm(f.lam[i], wave_unit)], f.flux)

\* one entry of the log of reads: which reader, which file, how it was asked
Call(reader, file, col, unit) ==
    [reader |-> reader, file |-> file, col |-> col, unit |-> unit]

(* ------------------------------- Site ---------------------------------- *)
\* the value of a keyword argument that is "a number or a file name"
NumArg(v) == [num |-> TRUE, v |-> v, path |-> ""]
PathArg(p) == [num |-> FALSE, v |-> One, path |-> p]

NoSite == [state |-> "none", has |-> FALSE, transmission |-> NoCurve]

\* SiteTransmission with a bare `except:` around the first read: every
\* failure of the primary dialect falls back to the alternate one
SiteTransmissionAnyError(arg) ==
    IF arg.num
      THEN [raised |-> FALSE, error |-> "", reads |-> <<>>,
            curve |-> Curve(Grid, Uniform(arg.v), FALSE, NoHeader, <<>>)]
    ELSE LET f == SkyFile(arg.path)
             first == read_spec(f, "trans", "nm")
             second == read_spec(f, "flux", "micron")
             c1 == Call("read_spec", arg.path, "trans", "nm")
             c2 == Call("read_spec", arg.path, "flux", "micron")
         IN  IF ~first.raised
               THEN [raised |-> FALSE, error |-> "", reads |-> <<c1>>,
                     curve |-> Curve(first.points, first.table, FALSE,
                                     first.header, <<>>)]
             ELSE IF ~second.raised
               THEN [raised |-> FALSE, error |-> "", reads |-> <<c1, c2>>,
                     curve |-> Curve(second.points, second.table, FALSE,
                                     second.header, <<>>)]
             ELSE [raised |-> TRUE, error |-> second.error,
                   reads |-> <<c1, c2>>, curve |-> NoCurve]

\* Site.__init__ with 'transmission' in kwargs: the curve it stores or the
\* exception it lets through, and the reads it made
SiteTransmission(arg) ==
    IF arg.num
      THEN [raised |-> FALSE, error |-> "", reads |-> <<>>,
            curve |-> Curve(Grid, Uniform(arg.v), FALSE, NoHeader, <<>>)]
    ELSE LET f == SkyFile(arg.path)
             first == read_spec(f, "trans", "nm")
             second == read_spec(f, "flux", "micron")
             c1 == Call("read_spec", arg.path, "trans", "nm")
             c2 == Call("read_spec", arg.path, "flux", "micron")
         IN  IF ~first.raised
               THEN [raised |-> FALSE, error |-> "", reads |-> <<c1>>,
                     curve |-> Curve(first.points, first.table, FALSE,
                                     first.header, <<>>)]
             ELSE IF first.error # "KeyError"
               THEN [raised |-> TRUE, error |-> first.error, reads |-> <<c1>>,
                     curve |-> NoCurve]
             ELSE IF ~second.raised
               THEN [raised |-> FALSE, error |-> "", reads |-> <<c1, c2>>,
                     curve |-> Curve(second.points, second.table, FALSE,
                                     second.header, <<>>)]
             ELSE [raised |-> TRUE, error |-> second.error,
                   reads |-> <<c1, c2>>, curve |-> NoCurve]

\* the curve a component owns, as the other operand of a product sees it
Unwrap(other) ==
    LET o1 == IF other.kind = "Telescope" THEN CurveObj(tel.reflectivity)
              ELSE other
    IN  IF o1.kind = "Instrument" THEN CurveObj(inst.transmission) ELSE o1

\* Site.__mul__: the curve assigned to self.transmission, or the exception
Site__mul__(other) ==
    IF ~site.has THEN Raise("AttributeError")
    ELSE CurveMul(site.transmission, Unwrap(other))

\* Site.__rmul__
Site__rmul__(other) == Site__mul__(other)

\* Site.__truediv__: the other operand is passed on as it is
Site__truediv__(other) ==
    IF ~site.has THEN Raise("AttributeError")
    ELSE CurveDiv(site.transmission, other)

(* ----------------------------- Telescope ------------------------------- *)
NoTelescope == [state |-> "none", num_mirrors |-> 0, reflectivity |-> NoCurve]

MirrorTable == Tab(NineTenths, Half, Half)

\* the reflectivity table files of the model; any other path does not exist
MirrorFiles == {"mirror_al.dat", "mirror_missing.dat"}

MirrorFile(path) ==
    IF path = "mirror_al.dat" THEN File(TRUE, {"col1", "col2"}, "nm", MirrorTable)
    ELSE File(FALSE, {}, "nm", <<>>)

\* specio.read_ascii_spec(file, wave_unit=, flux_unit=): the first two columns
read_ascii_spec(f, wave_unit) ==
    IF ~f.readable THEN ReadFail("OSError")
    ELSE ReadOk(NoHeader,
                [i \in DOMAIN f.lam |-> ToNm(f.lam[i], wave_unit)], f.flux)

\* the per-mirror curve mirror_se, or the exception of the read
MirrorSe(arg) ==
    IF arg.num
      THEN Ok(Curve(Grid, Uniform(arg.v), TRUE, NoHeader, <<>>))
    ELSE LET r == read_ascii_spec(MirrorFile(arg.path), "nm")
         IN  IF r.raised THEN Raise(r.error)
             ELSE Ok(Curve(r.points, r.table, TRUE, r.header, <<>>))

\* for x in range(0, num_mirrors-1): self.reflectivity *= mirror_se
RECURSIVE MirrorLoop(_, _, _)
MirrorLoop(refl, m, k) ==
    IF k <= 0 THEN refl
    ELSE MirrorLoop(CurveMul(refl, CurveObj(m)).value, m, k - 1)

\* the reflectivity Telescope.__init__ stores
TelescopeReflectivity(m, num_mirrors) == MirrorLoop(m, m, num_mirrors - 1)

RECURSIVE MaxFrom(_, _)
MaxFrom(tbl, i) ==
    IF i >= Len(tbl) THEN tbl[i]
    ELSE LET rest == MaxFrom(tbl, i + 1)
         IN  IF VLeq(rest, tbl[i]) THEN tbl[i] ELSE rest

\* Telescope.tpeak(): the largest sample of the reflectivity on its own grid
tpeak(reflectivity) == MaxFrom(reflectivity.table, 1)

\* Telescope.__mul__: the curve assigned to self.reflectivity, or the exception
Telescope__mul__(other) == CurveMul(tel.reflectivity, other)

\* Telescope.__rmul__
Telescope__rmul__(other) == Telescope__mul__(other)

\* Telescope.__truediv__
Telescope__truediv__(other) == CurveDiv(tel.reflectivity, other)

(* ----------------------------- Instrument ------------------------------ *)
\* A filter name is the sequence of its characters: "zp" is <<"z", "p">>.
None == "None"

\* the keys of `mapping` in set_bandpass_from_filter
MappingKeys ==
    {<<"u">>,
     <<"g">>,
     <<"r">>,
     <<"i">>,
     <<"z">>,
     <<"z", "s">>,
     <<"C", "2">>,
     <<"C", "3">>,
     <<"O", "H">>,
     <<"C", "N">>,
     <<"N", "H", "2">>,
     <<"C", "R">>,
     <<"U">>,
     <<"B">>,
     <<"V">>,
     <<"R">>,
     <<"I">>,
     <<"W", "H", "T", "_", "U">>,
     <<"W", "H", "T", "_", "B">>,
     <<"W", "H", "T", "_", "V">>,
     <<"W", "H", "T", "_", "R">>,
     <<"W", "H", "T", "_", "I">>}

\* mapping.get(filtername, None): the Conf item of a key
mapping(t) ==
    CASE t = <<"u">> -> "lco_u_file"
      [] t = <<"g">> -> "lco_g_file"
      [] t = <<"r">> -> "lco_r_file"
      [] t = <<"i">> -> "lco_i_file"
      [] t = <<"z">> -> "lco_zs_file"
      [] t = <<"z", "s">> -> "lco_zs_file"
      [] t = <<"C", "2">> -> "lco_c2_file"
      [] t = <<"C", "3">> -> "lco_c3_file"
      [] t = <<"O", "H">> -> "lco_oh_file"
      [] t = <<"C", "N">> -> "lco_cn_file"
      [] t = <<"N", "H", "2">> -> "lco_nh2_file"
      [] t = <<"C", "R">> -> "lco_cr_file"
      [] t = <<"U">> -> "lco_U_file"
      [] t = <<"B">> -> "lco_B_file"
      [] t = <<"V">> -> "lco_V_file"
      [] t = <<"R">> -> "lco_R_file"
      [] t = <<"I">> -> "lco_I_file"
      [] t = <<"W", "H", "T", "_", "U">> -> "wht_U_file"
      [] t = <<"W", "H", "T", "_", "B">> -> "wht_B_file"
      [] t = <<"W", "H", "T", "_", "V">> -> "wht_V_file"
      [] t = <<"W", "H", "T", "_", "R">> -> "wht_R_file"
      [] t = <<"W", "H", "T", "_", "I">> -> "wht_I_file"
      [] OTHER -> None

\* Alias without the length test: any name ending in 'p' is cut to its
\* first character
AliasAnyLength(filtername) ==
    IF Len(filtername) >= 2 /\ filtername[Len(filtername)] = "p"
      THEN <<filtername[1]>>
    ELSE filtername

\* if len(filtername) == 2 and filtername[1] == 'p': filtername = filtername[0]
Alias(filtername) ==
    IF Len(filtername) = 2 /\ filtername[2] = "p" THEN <<filtername[1]>>
    ELSE filtername

\* What a Conf item gives: its file name, by the substrings the dispatch
\* tests for, and its description.  `style` is how the configuration names
\* its filter files.
ConfStyles == {"lco_csv", "svo", "ascii", "lco_csv_svo"}

ConfItem(item, style) ==
    [name |-> item,
     lco |-> style \in {"lco_csv", "lco_csv_svo"},
     csv |-> style \in {"lco_csv", "lco_csv_svo"},
     svo |-> style \in {"svo", "lco_csv_svo"},
     description |-> item]

\* the transmission table the file of a Conf item holds
FilterTable(item) ==
    CASE item = "lco_zs_file" -> Tab(Half, NineTenths, Half)
      [] item = "lco_c2_file" -> Tab(NineTenths, Half, Neg(Half))
      [] OTHER -> Tab(One, NineTenths, Half)

\* the file of a Conf item, written in the unit its reader expects
FilterFile(item, unit) == File(TRUE, {"col1", "col2"}, unit, FilterTable(item))

\* Instrument._read_lco_filter_csv: an empty header and two columns, in nm
read_lco_filter_csv(f) ==
    ReadOk(NoHeader, [i \in DOMAIN f.lam |-> ToNm(f.lam[i], "nm")], f.flux)

\* specio.read_remote_spec(url, wave_unit=u.AA, flux_unit=THROUGHPUT)
read_remote_spec(f) ==
    ReadOk(NoHeader, [i \in DOMAIN f.lam |-> ToNm(f.lam[i], "AA")], f.flux)

\* which reader set_bandpass_from_filter picks for a file name
Loader(filename) ==
    IF filename.lco /\ filename.csv THEN "_read_lco_filter_csv"
    ELSE IF filename.svo THEN "read_remote_spec"
    ELSE "read_ascii_spec"

\* Instrument.set_bandpass_from_filter: the SpectralElement it returns or
\* the ETCError it raises, and the reads it made
set_bandpass_from_filter(filtername0) ==
    LET filtername == Alias(filtername0)
        item == mapping(filtername)
    IN  IF item = None
          THEN [raised |-> TRUE, error |-> "ETCError", value |-> NoCurve,
                reads |-> <<>>]
        ELSE
          LET filename == ConfItem(item, conf)
              loader == Loader(filename)
              r == IF loader = "_read_lco_filter_csv"
                     THEN read_lco_filter_csv(FilterFile(item, "nm"))
                   ELSE IF loader = "read_remote_spec"
                     THEN read_remote_spec(FilterFile(item, "AA"))
                   ELSE read_ascii_spec(FilterFile(item, "nm"), "nm")
              unit == IF loader = "read_remote_spec" THEN "AA" ELSE "nm"
              header == r.header \cup {<<"filename", filename.name>>,
                                       <<"descrip", filename.description>>}
          IN  [raised |-> FALSE, error |-> "",
               value |-> Curve(r.points, r.table, FALSE, header, filtername),
               reads |-> <<Call(loader, filename.name, "", unit)>>]

\* kwargs.get(key, default)
Get(kwargs, key, default) ==
    IF key \in DOMAIN kwargs THEN kwargs[key] ELSE default

\* 0.99, 0.9925 and the other defaults of Instrument.__init__
ArCoating == Q(-2, 2, -2, 1)
MirrorRefl == [sgn |-> 1, e |-> <<-4, 0, -2, 0, 1>>]

\* compute_transmission with the mirror factor raised to the lens count
compute_transmission_lens_count(self) ==
    LET t1 == VPow(self.ar_coating, self.num_ar_coatings)
        t2 == VMul(t1, VPow(self.lens_trans, self.num_lenses))
    IN  VMul(t2, VPow(self.mirror_refl, self.num_lenses))

\* Instrument._compute_transmission(self)
compute_transmission(self) ==
    LET t1 == VPow(self.ar_coating, self.num_ar_coatings)
        t2 == VMul(t1, VPow(self.lens_trans, self.num_lenses))
    IN  VMul(t2, VPow(self.mirror_refl, self.num_mirrors))

Names(filterset) == {filterset[k].name : k \in DOMAIN filterset}

\* FilterLoop without the test `filtername not in self.filterset`: a
\* repeated name is loaded again and replaces nothing
RECURSIVE FilterLoopNoSkip(_, _, _)
FilterLoopNoSkip(filterlist, i, acc) ==
    IF i > Len(filterlist) THEN acc
    ELSE LET r == set_bandpass_from_filter(filterlist[i])
             called == Append(acc.called, filterlist[i])
         IN  IF r.raised
               THEN [raised |-> TRUE, error |-> r.error,
                     filterset |-> acc.filterset, reads |-> acc.reads,
                     called |-> called]
             ELSE FilterLoopNoSkip(filterlist, i + 1,
                     [raised |-> FALSE, error |-> "",
                      filterset |-> IF filterlist[i] \in Names(acc.filterset)
                                      THEN acc.filterset
                                    ELSE Append(acc.filterset,
                                      [name |-> filterlist[i], curve |-> r.value]),
                      reads |-> acc.reads \o r.reads,
                      called |-> called])

\* FilterLoop with the ETCError of a refused name caught and the name skipped
RECURSIVE FilterLoopSwallow(_, _, _)
FilterLoopSwallow(filterlist, i, acc) ==
    IF i > Len(filterlist) THEN acc
    ELSE IF filterlist[i] \in Names(acc.filterset)
      THEN FilterLoopSwallow(filterlist, i + 1, acc)
    ELSE LET r == set_bandpass_from_filter(filterlist[i])
             called == Append(acc.called, filterlist[i])
         IN  IF r.raised
               THEN FilterLoopSwallow(filterlist, i + 1,
                        [acc EXCEPT !.called = called])
             ELSE FilterLoopSwallow(filterlist, i + 1,
                     [raised |-> FALSE, error |-> "",
                      filterset |-> Append(acc.filterset,
                                      [name |-> filterlist[i], curve |-> r.value]),
                      reads |-> acc.reads \o r.reads,
                      called |-> called])

\* for filtername in self.filterlist: if filtername not in self.filterset: ...
\* The loop stops at the first name set_bandpass_from_filter refuses.
RECURSIVE FilterLoop(_, _, _)
FilterLoop(filterlist, i, acc) ==
    IF i > Len(filterlist) THEN acc
    ELSE IF filterlist[i] \in Names(acc.filterset)
      THEN FilterLoop(filterlist, i + 1, acc)
    ELSE LET r == set_bandpass_from_filter(filterlist[i])
             called == Append(acc.called, filterlist[i])
         IN  IF r.raised
               THEN [raised |-> TRUE, error |-> r.error,
                     filterset |-> acc.filterset, reads |-> acc.reads,
                     called |-> called]
             ELSE FilterLoop(filterlist, i + 1,
                     [raised |-> FALSE, error |-> "",
                      filterset |-> Append(acc.filterset,
                                      [name |-> filterlist[i], curve |-> r.value]),
                      reads |-> acc.reads \o r.reads,
                      called |-> called])

FilterSet(filterlist) ==
    FilterLoop(filterlist, 1,
               [raised |-> FALSE, error |-> "", filterset |-> <<>>,
                reads |-> <<>>, called |-> <<>>])

\* the detector tables of the model
Four == Q(2, 0, 0, 0)
Six == Q(1, 1, 0, 0)
Eight == Q(3, 0, 0, 0)
ElevenTenths == Q(-1, 0, -1, 1)

CcdFiles == {"qe_percent.dat", "qe_fraction.dat", "qe_unity.dat", "qe_noisy.dat"}

CcdFile(path) ==
    CASE path = "qe_percent.dat" -> File(TRUE, {"col1", "col2"}, "nm", Tab(Four, Six, Eight))
      [] path = "qe_fraction.dat" -> File(TRUE, {"col1", "col2"}, "nm", Tab(NineTenths, Half, Neg(Half)))
      [] path = "qe_unity.dat" -> File(TRUE, {"col1", "col2"}, "nm", Tab(One, One, One))
      [] path = "qe_noisy.dat" -> File(TRUE, {"col1", "col2"}, "nm", Tab(ElevenTenths, One, One))
      [] OTHER -> File(FALSE, {}, "nm", <<>>)

\* the sum of the samples from index i on, as <<numerator, denominator>>
RECURSIVE SumFrom(_, _)
SumFrom(tbl, i) ==
    IF i > Len(tbl) THEN <<0, 1>>
    ELSE LET rest == SumFrom(tbl, i + 1)
         IN  <<Num(tbl[i]) * rest[2] + rest[1] * Den(tbl[i]),
               Den(tbl[i]) * rest[2]>>

\* the test written throughput.mean() >= 1.0
MeanAtLeastOne(tbl) ==
    LET s == SumFrom(tbl, 1) IN s[1] >= Len(tbl) * s[2]

\* throughput.mean() > 1.0
MeanAboveOne(tbl) ==
    LET s == SumFrom(tbl, 1) IN s[1] > Len(tbl) * s[2]

\* the ccd attribute Instrument.__init__ stores for a table file
CcdFromTable(path) ==
    LET r == read_ascii_spec(CcdFile(path), "nm")
        rescale == MeanAboveOne(r.table)
        throughput == IF rescale
                        THEN [i \in DOMAIN r.table |-> VDiv(r.table[i], Hundred)]
                      ELSE r.table
        notes == IF rescale
                   THEN {<<"notes", "Divided by 100.0 to convert from percentage">>}
                 ELSE {}
        header == (r.header \cup notes) \cup {<<"filename", path>>}
    IN  IF r.raised THEN Raise(r.error)
        ELSE Ok(Curve(r.points, throughput, FALSE, header, <<>>))

NoInstrument ==
    [state |-> "none", num_ar_coatings |-> 0, num_lenses |-> 0,
     num_mirrors |-> 0, lens_trans |-> One, mirror_refl |-> One,
     ar_coating |-> One, transmission |-> NoCurve, filterlist |-> <<>>,
     filterset |-> <<>>, ccd |-> Scalar(One)]

\* Instrument.__init__(**kwargs): the instrument it returns or the exception
\* it lets through, with the reads made and the names handed to
\* set_bandpass_from_filter
Instrument__init__(kwargs) ==
    LET num_ar_coatings == Get(kwargs, "num_ar_coatings", 2)
        num_lenses == Get(kwargs, "num_inst_lenses", 1)
        num_mirrors == Get(kwargs, "num_inst_mirrors", 0)
        lens_trans == Get(kwargs, "inst_lens_trans", NineTenths)
        mirror_refl == Get(kwargs, "inst_mirror_refl", MirrorRefl)
        ar_coating == Get(kwargs, "inst_ar_coating_refl", ArCoating)
        transmission == compute_transmission(
                            [num_ar_coatings |-> num_ar_coatings,
                             num_lenses |-> num_lenses,
                             num_mirrors |-> num_mirrors,
                             lens_trans |-> lens_trans,
                             mirror_refl |-> mirror_refl,
                             ar_coating |-> ar_coating])
        filterlist == Get(kwargs, "filterlist", <<>>)
        fs == FilterSet(filterlist)
        ccd_qe == Get(kwargs, "ccd", NumArg(NineTenths))
        table == CcdFromTable(ccd_qe.path)
        failed == fs.raised \/ (~ccd_qe.num /\ table.raised)
    IN  [raised |-> failed,
         error |-> IF fs.raised THEN fs.error
                   ELSE IF failed THEN table.error ELSE "",
         reads |-> fs.reads,
         called |-> fs.called,
         inst |-> IF failed THEN [NoInstrument EXCEPT !.state = "failed"]
                  ELSE [state |-> "ok",
                        num_ar_coatings |-> num_ar_coatings,
                        num_lenses |-> num_lenses,
                        num_mirrors |-> num_mirrors,
                        lens_trans |-> lens_trans,
                        mirror_refl |-> mirror_refl,
                        ar_coating |-> ar_coating,
                        transmission |-> Curve(Grid, Uniform(transmission),
                                               TRUE, NoHeader, <<>>),
                        filterlist |-> filterlist,
                        filterset |-> fs.filterset,
                        ccd |-> IF ccd_qe.num THEN Scalar(ccd_qe.v)
                                ELSE CurveObj(table.value)]]

Lookup(filterset, name) ==
    (CHOOSE k \in DOMAIN filterset : filterset[k].name = name)

\* throughput without the detector factor
throughput_no_ccd(filtername) ==
    IF ~(\E k \in DOMAIN inst.filterlist : inst.filterlist[k] = filtername)
         \/ filtername \notin Names(inst.filterset)
      THEN Raise("ETCError")
    ELSE LET f == inst.filterset[Lookup(inst.filterset, filtername)].curve
         IN  CurveMul(f, CurveObj(inst.transmission))

\* Instrument.throughput(filtername)
throughput(filtername) ==
    IF ~(\E k \in DOMAIN inst.filterlist : inst.filterlist[k] = filtername)
         \/ filtername \notin Names(inst.filterset)
      THEN Raise("ETCError")
    ELSE LET f == inst.filterset[Lookup(inst.filterset, filtername)].curve
             ft == CurveMul(f, CurveObj(inst.transmission))
         IN  IF ft.raised THEN ft ELSE CurveMul(ft.value, inst.ccd)

(* ------------------------------ the state ------------------------------ *)
\* log and calls hold the reads made by the last call and the filter names it
\* handed to set_bandpass_from_filter.
\* The result of the last call or expression: what was evaluated, whether it
\* raised, which object it returned ("self": the operand itself, "new": a
\* fresh value), the curve of the result, and the curves the two operands
\* owned before the evaluation.
Result(op, lhs, rhs, r, ret, lcurve, rcurve, name) ==
    [op |-> op, lhs |-> lhs, rhs |-> rhs,
     status |-> IF r.raised THEN "raised" ELSE "ok",
     error |-> r.error,
     ret |-> IF r.raised THEN "" ELSE ret,
     value |-> r.value, lcurve |-> lcurve, rcurve |-> rcurve, name |-> name]

NoResult == Result("", "", "", Ok(NoCurve), "", <<>>, <<>>, <<>>)

\* the samples an operand contributes to a product
OwnedTable(x) ==
    CASE x.kind = "Scalar" -> Uniform(x.v)
      [] x.kind = "Curve" -> x.c.table
      [] x.kind = "Site" -> site.transmission.table
      [] x.kind = "Telescope" -> tel.reflectivity.table
      [] OTHER -> inst.transmission.table

InitCommon ==
    /\ site = NoSite
    /\ site0 = NoCurve
    /\ skw = <<>>
    /\ tel = NoTelescope
    /\ tel0 = NoCurve
    /\ mirror = NoCurve
    /\ inst = NoInstrument
    /\ ikw = <<>>
    /\ log = <<>>
    /\ calls = <<>>
    /\ res = NoResult
    /\ nops = 0

(* ---------------------------- constructors ----------------------------- *)
\* Site(name=..., **kwargs)
SiteInit(kwargs) ==
    /\ site.state = "none"
    /\ LET has == "transmission" \in DOMAIN kwargs
           r == IF has THEN SiteTransmission(kwargs.transmission)
                ELSE [raised |-> FALSE, error |-> "", reads |-> <<>>,
                      curve |-> NoCurve]
       IN  /\ site' = IF r.raised THEN [NoSite EXCEPT !.state = "failed"]
                      ELSE [state |-> "ok", has |-> has, transmission |-> r.curve]
           /\ site0' = r.curve
           /\ skw' = kwargs
           /\ log' = r.reads
           /\ res' = Result("Site.__init__", "", "",
                            [raised |-> r.raised, error |-> r.error,
                             value |-> r.curve], "new", <<>>, <<>>, <<>>)
    /\ calls' = <<>>
    /\ UNCHANGED <<tel, tel0, mirror, inst, ikw, conf, nops>>

\* Telescope(num_mirrors=..., reflectivity=...)
TelescopeInit(num_mirrors, arg) ==
    /\ tel.state = "none"
    /\ LET m == MirrorSe(arg)
           refl == TelescopeReflectivity(m.value, num_mirrors)
       IN  /\ tel' = IF m.raised THEN [NoTelescope EXCEPT !.state = "failed"]
                     ELSE [state |-> "ok", num_mirrors |-> num_mirrors,
                           reflectivity |-> refl]
           /\ tel0' = IF m.raised THEN NoCurve ELSE refl
           /\ mirror' = m.value
           /\ res' = Result("Telescope.__init__", "", "",
                            IF m.raised THEN m ELSE Ok(refl), "new",
                            <<>>, <<>>, <<>>)
    /\ log' = <<>>
    /\ calls' = <<>>
    /\ UNCHANGED <<site, site0, skw, inst, ikw, conf, nops>>

\* Instrument(**kwargs)
InstrumentInit(kwargs) ==
    /\ inst.state = "none"
    /\ LET r == Instrument__init__(kwargs)
       IN  /\ inst' = r.inst
           /\ ikw' = kwargs
           /\ log' = r.reads
           /\ calls' = r.called
           /\ res' = Result("Instrument.__init__", "", "",
                            [raised |-> r.raised, error |-> r.error,
                             value |-> r.inst.transmission], "new",
                            <<>>, <<>>, <<>>)
    /\ UNCHANGED <<site, site0, skw, tel, tel0, mirror, conf, nops>>

(* ----------------------------- composition ----------------------------- *)
\* An expression a * b or a / b with a Site or a Telescope in it.  Python
\* calls the left operand's method first; a number or an Instrument on the
\* left has none that accepts the right operand, so the right operand's
\* reflected method runs.  The methods assign to self and return self.

\* site * x
SiteMul(x) ==
    /\ site.state = "ok"
    /\ nops < MaxOps
    /\ LET r == Site__mul__(x)
       IN  /\ site' = IF r.raised THEN site
                      ELSE [site EXCEPT !.transmission = r.value]
           /\ res' = Result("mul", "Site", x.kind, r, "self",
                            OwnedTable(SiteObj), OwnedTable(x), <<>>)
    /\ nops' = nops + 1
    /\ log' = <<>>
    /\ calls' = <<>>
    /\ UNCHANGED <<site0, skw, tel, tel0, mirror, inst, ikw, conf>>

\* x * site, for x a number or an Instrument
SiteRmul(x) ==
    /\ site.state = "ok"
    /\ nops < MaxOps
    /\ x.kind \in {"Scalar", "Instrument"}
    /\ LET r == Site__rmul__(x)
       IN  /\ site' = IF r.raised THEN site
                      ELSE [site EXCEPT !.transmission = r.value]
           /\ res' = Result("mul", x.kind, "Site", r, "self",
                            OwnedTable(x), OwnedTable(SiteObj), <<>>)
    /\ nops' = nops + 1
    /\ log' = <<>>
    /\ calls' = <<>>
    /\ UNCHANGED <<site0, skw, tel, tel0, mirror, inst, ikw, conf>>

\* site / x
SiteTruediv(x) ==
    /\ site.state = "ok"
    /\ nops < MaxOps
    /\ LET r == Site__truediv__(x)
       IN  /\ site' = IF r.raised THEN site
                      ELSE [site EXCEPT !.transmission = r.value]
           /\ res' = Result("truediv", "Site", x.kind, r, "self",
                            OwnedTable(SiteObj), OwnedTable(x), <<>>)
    /\ nops' = nops + 1
    /\ log' = <<>>
    /\ calls' = <<>>
    /\ UNCHANGED <<site0, skw, tel, tel0, mirror, inst, ikw, conf>>

\* telescope * x
TelescopeMul(x) ==
    /\ tel.state = "ok"
    /\ nops < MaxOps
    /\ LET r == Telescope__mul__(x)
       IN  /\ tel' = IF r.raised THEN tel
                     ELSE [tel EXCEPT !.reflectivity = r.value]
           /\ res' = Result("mul", "Telescope", x.kind, r, "self",
                            OwnedTable(TelescopeObj), OwnedTable(x), <<>>)
    /\ nops' = nops + 1
    /\ log' = <<>>
    /\ calls' = <<>>
    /\ UNCHANGED <<site, site0, skw, tel0, mirror, inst, ikw, conf>>

\* x * telescope, for x a number or an Instrument
TelescopeRmul(x) ==
    /\ tel.state = "ok"
    /\ nops < MaxOps
    /\ x.kind \in {"Scalar", "Instrument"}
    /\ LET r == Telescope__rmul__(x)
       IN  /\ tel' = IF r.raised THEN tel
                     ELSE [tel EXCEPT !.reflectivity = r.value]
           /\ res' = Result("mul", x.kind, "Telescope", r, "self",
                            OwnedTable(x), OwnedTable(TelescopeObj), <<>>)
    /\ nops' = nops + 1
    /\ log' = <<>>
    /\ calls' = <<>>
    /\ UNCHANGED <<site, site0, skw, tel0, mirror, inst, ikw, conf>>

\* telescope / x
TelescopeTruediv(x) ==
    /\ tel.state = "ok"
    /\ nops < MaxOps
    /\ LET r == Telescope__truediv__(x)
       IN  /\ tel' = IF r.raised THEN tel
                     ELSE [tel EXCEPT !.reflectivity = r.value]
           /\ res' = Result("truediv", "Telescope", x.kind, r, "self",
                            OwnedTable(TelescopeObj), OwnedTable(x), <<>>)
    /\ nops' = nops + 1
    /\ log' = <<>>
    /\ calls' = <<>>
    /\ UNCHANGED <<site, site0, skw, tel0, mirror, inst, ikw, conf>>

\* curve * component: the curve's own __mul__ runs and refuses the component
CurveTimes(c, x) ==
    /\ nops < MaxOps
    /\ x.kind \in {"Site", "Telescope", "Instrument"}
    /\ res' = Result("mul", "Curve", x.kind, CurveMul(c.c, x), "new",
                     OwnedTable(c), OwnedTable(x), <<>>)
    /\ nops' = nops + 1
    /\ log' = <<>>
    /\ calls' = <<>>
    /\ UNCHANGED <<site, site0, skw, tel, tel0, mirror, inst, ikw, conf>>

(* ------------------------- instrument queries -------------------------- *)
\* instrument.throughput(filtername)
Throughput(filtername) ==
    /\ inst.state = "ok"
    /\ res' = Result("throughput", "Instrument", "", throughput(filtername),
                     "new", <<>>, <<>>, filtername)
    /\ log' = <<>>
    /\ calls' = <<>>
    /\ UNCHANGED <<site, site0, skw, tel, tel0, mirror, inst, ikw, conf, nops>>

\* instrument.set_bandpass_from_filter(filtername)
SetBandpass(filtername) ==
    /\ inst.state = "ok"
    /\ LET r == set_bandpass_from_filter(filtername)
       IN  /\ res' = Result("set_bandpass_from_filter", "Instrument", "",
                            [raised |-> r.raised, error |-> r.error,
                             value |-> r.value], "new", <<>>, <<>>, filtername)
           /\ log' = r.reads
           /\ calls' = <<filtername>>
    /\ UNCHANGED <<site, site0, skw, tel, tel0, mirror, inst, ikw, conf, nops>>

(* ------------------------------- inputs -------------------------------- *)
SiteKwargs ==
    {[name |-> "site"]}
    \cup {[name |-> "site", transmission |-> NumArg(v)] : v \in {NineTenths}}
    \cup {[name |-> "site", transmission |-> PathArg(p)] : p \in SkyFiles}

MirrorArgs == {NumArg(NineTenths)} \cup {PathArg(p) : p \in MirrorFiles}

\* the operands that exist in the current state
Operands ==
    {Scalar(Half), CurveObj(RawCurve(Tab(Half, NineTenths, One)))}
    \cup (IF site.state = "ok" THEN {SiteObj} ELSE {})
    \cup (IF tel.state = "ok" THEN {TelescopeObj} ELSE {})
    \cup (IF inst.state = "ok" THEN {InstrumentObj} ELSE {})

Curves == {x \in Operands : x.kind = "Curve"}

\* the instruments composed with a Site or a Telescope
OpticsKwargs == {[name |-> "imager"], [name |-> "bare", num_ar_coatings |-> 0]}

Init == InitCommon /\ conf = "ascii"

Next ==
    \/ \E kwargs \in SiteKwargs : SiteInit(kwargs)
    \/ \E n \in 0..MaxMirrors, arg \in MirrorArgs : TelescopeInit(n, arg)
    \/ \E kwargs \in OpticsKwargs : InstrumentInit(kwargs)
    \/ \E x \in Operands : SiteMul(x)
    \/ \E x \in Operands : SiteRmul(x)
    \/ \E x \in Operands : SiteTruediv(x)
    \/ \E x \in Operands : TelescopeMul(x)
    \/ \E x \in Operands : TelescopeRmul(x)
    \/ \E x \in Operands : TelescopeTruediv(x)
    \/ \E c \in Curves, x \in Operands : CurveTimes(c, x)

Spec == Init /\ [][Next]_vars

(* ----------------------- the instrument on its own --------------------- *)
Seqs(S, n) == UNION {[1..k -> S] : k \in 0..n}

\* names a configuration lists: two spellings of one filter, another filter,
\* and a name the catalog does not hold
FilterNames == {<<"z">>, <<"z", "p">>, <<"C", "2">>, <<"x", "x">>}

\* names asked of a constructed instrument
Tokens ==
    FilterNames \cup
    {<<"z", "s">>, <<"g">>, <<"g", "p">>, <<"C", "p">>, <<"p">>,
     <<"N", "H", "2">>, <<"z", "s", "p">>}

CcdArgs == {NumArg(NineTenths), NumArg(Six)} \cup {PathArg(p) : p \in CcdFiles}

InstrumentKwargs ==
    {[filterlist |-> fl] : fl \in Seqs(FilterNames, MaxFilters)}
    \cup {[filterlist |-> <<<<"z">>>>, ccd |-> c,
           num_ar_coatings |-> a, inst_ar_coating_refl |-> ArCoating,
           num_inst_lenses |-> l, inst_lens_trans |-> lt,
           num_inst_mirrors |-> m, inst_mirror_refl |-> MirrorRefl] :
            c \in CcdArgs, a \in {0, 2}, l \in {0, 1}, m \in {0, 1},
            lt \in {NineTenths, Half}}

InitInstrument == InitCommon /\ conf \in ConfStyles

NextInstrument ==
    \/ \E kwargs \in InstrumentKwargs : InstrumentInit(kwargs)
    \/ \E f \in FilterNames \cup {<<"z", "s">>} : Throughput(f)
    \/ \E f \in Tokens : SetBandpass(f)

SpecInstrument == InitInstrument /\ [][NextInstrument]_vars

(* ======================= claims about composition ====================== *)
Range(seq) == {seq[k] : k \in DOMAIN seq}

Composed == res.op \in {"mul", "truediv"}

Components == {"Site", "Telescope", "Instrument"}

\* C1: composition never mutates an operand: after any sequence of s * x,
\* x * s, s / x, t * x, x * t and t / x the Site still stores the transmission
\* and the Telescope the reflectivity it was constructed with, and a
\* composition that succeeds returns a new value, not the operand itself.
C1_OperandsNotMutated ==
    /\ site.state = "ok" => site.transmission = site0
    /\ tel.state = "ok" => tel.reflectivity = tel0
    /\ (Composed /\ res.status = "ok") => res.ret = "new"

\* C2: multiplication commutes at the component level: for two different
\* components a and b that own a curve, a * b and b * a both succeed and
\* both yield the pointwise product of the two owned curves.
C2_MulCommutes ==
    (/\ res.op = "mul"
     /\ res.lhs \in Components
     /\ res.rhs \in Components
     /\ res.lhs # res.rhs
     /\ res.lcurve # <<>>
     /\ res.rcurve # <<>>)
    => /\ res.status = "ok"
       /\ res.value.table =
            [i \in 1..NumSamples |-> VMul(res.lcurve[i], res.rcurve[i])]

\* C7: a Telescope constructed with num_mirrors = n and per-mirror curve m
\* stores the pointwise power m^n, and its peak is the n-th power of the
\* peak of m.
C7_ReflectivityIsPower ==
    (res.op = "Telescope.__init__" /\ tel.state = "ok")
    => /\ tel.reflectivity.table =
            [i \in 1..NumSamples |-> VPow(mirror.table[i], tel.num_mirrors)]
       /\ tpeak(tel.reflectivity) = VPow(tpeak(mirror), tel.num_mirrors)

\* C10: a Site whose transmission argument is a file name reads the primary
\* dialect (trans, nm) first; it reads the alternate dialect (flux, micron)
\* once, and only when the primary read failed for a missing column; when
\* the alternate read fails too its error reaches the caller and no Site is
\* produced; any other failure of the primary read reaches the caller with
\* no second read.
C10_DialectFallback ==
    (/\ res.op = "Site.__init__"
     /\ "transmission" \in DOMAIN skw
     /\ ~skw.transmission.num)
    => LET path == skw.transmission.path
           f == SkyFile(path)
           hasTrans == "trans" \in f.cols
           hasFlux == "flux" \in f.cols
           primary == Call("read_spec", path, "trans", "nm")
           alternate == Call("read_spec", path, "flux", "micron")
       IN  /\ Len(log) \in {1, 2}
           /\ log[1] = primary
           /\ Len(log) = 2 => log[2] = alternate
           /\ Len(log) = 2 <=> (f.readable /\ ~hasTrans)
           /\ (f.readable /\ ~hasTrans /\ ~hasFlux)
                => /\ res.status = "raised"
                   /\ res.error = "KeyError"
                   /\ site.state = "failed"
                   /\ site.transmission = NoCurve
           /\ ~f.readable
                => /\ res.status = "raised"
                   /\ res.error = "OSError"
                   /\ site.state = "failed"
                   /\ site.transmission = NoCurve
           /\ (f.readable /\ (hasTrans \/ hasFlux))
                => /\ res.status = "ok"
                   /\ site.state = "ok"
                   /\ site.transmission.points = Grid
                   /\ site.transmission.table = ClampNeg(f.flux)

\* both dialects were tried and both failed
C10_Witness ==
    /\ res.op = "Site.__init__"
    /\ Len(log) = 2
    /\ res.status = "raised"
    /\ site.state = "failed"

(* ======================= claims about the instrument =================== *)
\* the configured filter-name list and detector argument of the instrument
ConfiguredList == Get(ikw, "filterlist", <<>>)
ConfiguredCcd == Get(ikw, "ccd", NumArg(NineTenths))

\* the names of a list without repeats, in order of first occurrence
RECURSIVE DedupFrom(_, _, _)
DedupFrom(L, i, acc) ==
    IF i > Len(L) THEN acc
    ELSE DedupFrom(L, i + 1,
                   IF L[i] \in Range(acc) THEN acc ELSE Append(acc, L[i]))

Dedup(L) == DedupFrom(L, 1, <<>>)

IsPrefix(a, b) == Len(a) <= Len(b) /\ \A k \in DOMAIN a : a[k] = b[k]

Keys(filterset) == [k \in DOMAIN filterset |-> filterset[k].name]

\* the catalog key a name is looked up under
BaseToken(t) == IF Len(t) = 2 /\ t[2] = "p" THEN <<t[1]>> ELSE t

Unknown(t) == BaseToken(t) \notin MappingKeys

\* the sample-by-sample product of two tables
Pointwise(a, b) == [i \in 1..NumSamples |-> VMul(a[i], b[i])]

\* C3: Instrument.throughput(f) fails with the unknown-filter error, and
\* leaves the instrument as constructed, when f is not in the configured
\* filter list; when f is in it, it returns filter curve x internal
\* transmission x detector, the detector being a curve or a plain number.
C3_Throughput ==
    /\ inst.state = "ok" => inst = Instrument__init__(ikw).inst
    /\ res.op = "throughput" =>
         LET f == res.name
             loaded == set_bandpass_from_filter(f).value.table
             detector == IF inst.ccd.kind = "Scalar" THEN Uniform(inst.ccd.v)
                         ELSE inst.ccd.c.table
         IN  IF f \in Range(ConfiguredList)
               THEN /\ res.status = "ok"
                    /\ res.value.table =
                         Pointwise(Pointwise(loaded, inst.transmission.table),
                                   detector)
             ELSE /\ res.status = "raised"
                  /\ res.error = "ETCError"

\* a registered filter was asked for and the detector is a plain number
C3_Witness ==
    /\ res.op = "throughput"
    /\ res.status = "ok"
    /\ inst.ccd.kind = "Scalar"
    /\ Len(ConfiguredList) >= 2

\* C4: constructing an Instrument hands each distinct name of the configured
\* list to the loader exactly once, in order of first occurrence (up to the
\* first name the loader refuses); once constructed, the filterset's keys are
\* the distinct names in that order and throughput(f) does not raise the
\* unknown-filter error for any configured f.
C4_FilterSetPopulation ==
    /\ inst.state = "ok" =>
         /\ Keys(inst.filterset) = Dedup(ConfiguredList)
         /\ \A f \in Range(ConfiguredList) : ~throughput(f).raised
    /\ res.op = "Instrument.__init__" =>
         /\ IsPrefix(calls, Dedup(ConfiguredList))
         /\ inst.state = "ok" =>
              /\ calls = Dedup(ConfiguredList)
              /\ Len(log) = Len(calls)

\* a list with a repeated name, after another name, was configured
C4_Witness ==
    /\ res.op = "Instrument.__init__"
    /\ inst.state = "ok"
    /\ Len(ConfiguredList) = 3
    /\ ConfiguredList[1] = ConfiguredList[3]
    /\ ConfiguredList[1] # ConfiguredList[2]
    /\ Len(inst.filterset) = 2
    /\ Len(calls) = 2

\* C5: a two-character name ending in 'p' is looked up under its first
\* character and resolves exactly as that one-character name does (same
\* file, same curve, same metadata, or the same error); every other name is
\* looked up as it is.
C5_AliasReduction ==
    res.op = "set_bandpass_from_filter" =>
      LET t == res.name
          key == BaseToken(t)
          base == set_bandpass_from_filter(<<t[1]>>)
      IN  /\ res.status = "raised" <=> key \notin MappingKeys
          /\ res.status = "ok" =>
               /\ res.value.expr = key
               /\ <<"filename", mapping(key)>> \in res.value.header
               /\ res.value.table = ClampNeg(FilterTable(mapping(key)))
               /\ Len(log) = 1
               /\ log[1].file = mapping(key)
          /\ (Len(t) = 2 /\ t[2] = "p") =>
               /\ res.status = (IF base.raised THEN "raised" ELSE "ok")
               /\ res.error = base.error
               /\ res.value = base.value
               /\ log = base.reads

\* "zp" resolved to the curve of "z"
C5_Witness ==
    /\ res.op = "set_bandpass_from_filter"
    /\ res.name = <<"z", "p">>
    /\ res.status = "ok"
    /\ res.value.expr = <<"z">>

\* C6: a name whose catalog key is unknown makes set_bandpass_from_filter
\* raise the unknown-filter error before any file or URL is read; during
\* construction the error ends the construction: no Instrument is returned,
\* and the name that failed is the last one handed to the loader.
C6_UnknownFilterAborts ==
    /\ (res.op = "set_bandpass_from_filter" /\ Unknown(res.name)) =>
         /\ res.status = "raised"
         /\ res.error = "ETCError"
         /\ log = <<>>
    /\ (res.op = "Instrument.__init__"
        /\ \E k \in DOMAIN ConfiguredList : Unknown(ConfiguredList[k])) =>
         /\ res.status = "raised"
         /\ res.error = "ETCError"
         /\ inst.state = "failed"
         /\ inst.filterset = <<>>
         /\ calls # <<>>
         /\ Unknown(calls[Len(calls)])
         /\ \A k \in 1..(Len(calls) - 1) : ~Unknown(calls[k])
         /\ Len(log) = Len(calls) - 1

\* construction was aborted after two filters had been loaded
C6_Witness ==
    /\ res.op = "Instrument.__init__"
    /\ res.status = "raised"
    /\ inst.state = "failed"
    /\ Len(calls) = 3
    /\ Len(log) = 2

RescaleNote == <<"notes", "Divided by 100.0 to convert from percentage">>

\* the mean of a table compared with a whole number n
MeanAbove(tbl, n) == LET s == SumFrom(tbl, 1) IN s[1] > n * Len(tbl) * s[2]
MeanIs(tbl, n) == LET s == SumFrom(tbl, 1) IN s[1] = n * Len(tbl) * s[2]
MeanInUnit(tbl) ==
    LET s == SumFrom(tbl, 1) IN s[1] >= 0 /\ s[1] <= Len(tbl) * s[2]

\* C8: a detector table is divided by 100 exactly when the mean of its
\* samples exceeds 1.0, and its header carries the rescaling note exactly
\* then; a table of mean 6.0 ends with a mean in [0, 1]; a detector given as
\* a number is stored as it is.
C8_PercentHeuristic ==
    inst.state = "ok" =>
      IF ConfiguredCcd.num THEN inst.ccd = Scalar(ConfiguredCcd.v)
      ELSE LET raw == CcdFile(ConfiguredCcd.path).flux
               stored == inst.ccd.c
               percent == [i \in DOMAIN raw |-> VDiv(raw[i], Hundred)]
           IN  /\ inst.ccd.kind = "Curve"
               /\ stored.table =
                    ClampNeg(IF MeanAbove(raw, 1) THEN percent ELSE raw)
               /\ RescaleNote \in stored.header <=> MeanAbove(raw, 1)
               /\ <<"filename", ConfiguredCcd.path>> \in stored.header
               /\ MeanIs(raw, 6) => MeanInUnit(stored.table)

\* a table of mean 6.0 was loaded and rescaled
C8_Witness ==
    /\ inst.state = "ok"
    /\ ~ConfiguredCcd.num
    /\ MeanIs(CcdFile(ConfiguredCcd.path).flux, 6)
    /\ RescaleNote \in inst.ccd.c.header

\* floor(n / d * 10^k), digit by digit
RECURSIVE Decimals(_, _, _)
Decimals(n, d, k) ==
    IF k = 0 THEN n \div d
    ELSE (n \div d) * IPow(10, k) + Decimals((n % d) * 10, d, k - 1)

Millionths(v) == Decimals(Num(v), Den(v), 6)

Abs(x) == IF x < 0 THEN 0 - x ELSE x

\* the Instrument of the worked example: two AR coatings of 0.99, one lens
\* of 0.9, no mirror
WorkedExample ==
    /\ inst.state = "ok"
    /\ inst.num_ar_coatings = 2
    /\ inst.ar_coating = ArCoating
    /\ inst.num_lenses = 1
    /\ inst.lens_trans = NineTenths
    /\ inst.num_mirrors = 0

\* the internal transmission is the product of the three powers, and the
\* transmission curve holds it at every point of the grid
InternalTransmissionIsProduct ==
    inst.state = "ok" =>
      LET t == inst.transmission.table[1]
      IN  /\ inst.transmission.points = Grid
          /\ \A i \in 1..NumSamples : inst.transmission.table[i] = t
          /\ Num(t) = IPow(Num(inst.ar_coating), inst.num_ar_coatings)
                      * IPow(Num(inst.lens_trans), inst.num_lenses)
                      * IPow(Num(inst.mirror_refl), inst.num_mirrors)
          /\ Den(t) = IPow(Den(inst.ar_coating), inst.num_ar_coatings)
                      * IPow(Den(inst.lens_trans), inst.num_lenses)
                      * IPow(Den(inst.mirror_refl), inst.num_mirrors)

\* C9 as stated: the internal transmission is the product of the three
\* powers at every grid point, and the worked example yields 0.882225 to
\* within one part in ten thousand.
C9_AsStated ==
    /\ InternalTransmissionIsProduct
    /\ WorkedExample =>
         Abs(Millionths(inst.transmission.table[1]) - 882225) <= 100

\* C9 as amended: the internal transmission is the product of the three
\* powers at every grid point, and the worked example yields
\* 0.99^2 x 0.9 = 0.88209.
C9_InternalTransmission ==
    /\ InternalTransmissionIsProduct
    /\ WorkedExample =>
         /\ Num(inst.transmission.table[1]) = 88209
         /\ Den(inst.transmission.table[1]) = 100000
         /\ Millionths(inst.transmission.table[1]) = 882090

\* the worked example was constructed
C9_Witness == WorkedExample /\ inst.transmission.points = Grid

====
